---------------------------- MODULE Spec2Model ----------------------------
(***************************************************************************)
(* Model of the receipt extraction pipeline of null-receipts               *)
(* (src/cmd/server/main.go, package server): ParseReceipt, callModel,      *)
(* parseResponse, extractJSON, calcConfidence and errorResponse.           *)
(*                                                                         *)
(* Conventions                                                             *)
(*  - A Go pointer / optional proto field is a sequence: <<>> is nil,      *)
(*    <<x>> points at x.                                                   *)
(*  - Decimal numbers are fixed point, in tenths: 45 is 4.5, 10 is 1.0.    *)
(*    A product qty * unit_price is therefore in hundredths.               *)
(*  - A text is a sequence of tokens.  The tokens are the characters the   *)
(*    code looks at (a backtick, a whitespace character), the four-letter  *)
(*    word "json" that the regular expression names, any other character   *)
(*    ("ch"), and a "doc" token: a backtick-free run of characters that is *)
(*    one complete JSON value, carried as its syntax tree.                 *)
(*  - Time is counted in minutes.                                          *)
(***************************************************************************)
EXTENDS Integers, Sequences, FiniteSets, TLC

VARIABLES
    pc,                \* position of the handler / phase of the pure specs
    provider,          \* which client the Server was built with (s.gemini != nil)
    imageSize,         \* len(req.ImageData)
    now,               \* wall clock, minutes since the request arrived
    started,           \* time at which context.WithTimeout was called
    callerDeadline,    \* deadline carried by the caller's context
    ctxErr,            \* ctx.Err() of the context the handler holds
    callErr,           \* err returned by callModel
    raw,               \* text returned by callModel / input of parseResponse
    resp,              \* *pb.ParseReceiptResponse returned
    rpcErr,            \* error returned next to the response
    stages,            \* log of the stages the handler has run
    cancelledInFlight, \* the caller cancelled while callModel was blocked
    body,              \* pure specs: the text before fence wrapping
    wrap,              \* pure specs: how body was wrapped into raw
    parsed,            \* pure specs: value returned by parseResponse
    receipt,           \* pure specs: record handed to calcConfidence
    conf,              \* pure specs: value returned by calcConfidence
    prevConf           \* pure specs: score before the last field was added

vars == <<pc, provider, imageSize, now, started, callerDeadline, ctxErr,
          callErr, raw, resp, rpcErr, stages, cancelledInFlight,
          body, wrap, parsed, receipt, conf, prevConf>>

orchVars == <<provider, imageSize, now, started, callerDeadline, ctxErr,
              callErr, resp, rpcErr, stages, cancelledInFlight>>
parseVars == <<body, wrap, parsed>>
scoreVars == <<receipt, conf, prevConf>>

-----------------------------------------------------------------------------
(* Bounds of the model *)

MaxTime == 6       \* the clock stops here
MaxMembers == 2    \* scalar members of a generated JSON object
MaxItems == 2      \* elements of a generated "items" array / receipt items
MaxInner == 4      \* characters between the first and last of a free text

-----------------------------------------------------------------------------
(* Program constants *)

maxImageSize == 5242880   \* 5 << 20
timeout == 5              \* 5 * time.Minute
QtyDefault == 10          \* 1.0
Base == 5                 \* float32(0.5), in tenths
Step == 1                 \* 0.1, in tenths
Cap == 10                 \* 1.0, in tenths

Nil == <<>>
Ptr(x) == <<x>>

Min(a, b) == IF a <= b THEN a ELSE b
Abs(x) == IF x < 0 THEN 0 - x ELSE x

RECURSIVE SeqsUpTo(_, _)
SeqsUpTo(S, n) ==
    IF n = 0 THEN {<<>>}
    ELSE LET shorter == SeqsUpTo(S, n - 1)
         IN  shorter \cup {Append(s, x) : s \in shorter, x \in S}

-----------------------------------------------------------------------------
(* JSON values, as encoding/json sees them after lexing *)

JNull == [k |-> "null", s |-> "", n |-> 0, e |-> <<>>, m |-> <<>>]
JStr(x) == [k |-> "str", s |-> x, n |-> 0, e |-> <<>>, m |-> <<>>]
JNum(x) == [k |-> "num", s |-> "", n |-> x, e |-> <<>>, m |-> <<>>]
\* a number literal outside the range of float64, such as 1e999
JBig == [k |-> "big", s |-> "1e999", n |-> 0, e |-> <<>>, m |-> <<>>]
JBool == [k |-> "bool", s |-> "true", n |-> 0, e |-> <<>>, m |-> <<>>]
JArr(elems) == [k |-> "arr", s |-> "", n |-> 0, e |-> elems, m |-> <<>>]
JObj(members) == [k |-> "obj", s |-> "", n |-> 0, e |-> <<>>, m |-> members]
Member(key, val) == [key |-> key, val |-> val]

(* Texts *)
Tok(t) == [t |-> t, d |-> JNull]
DocTok(v) == [t |-> "doc", d |-> v]
BT == Tok("bt")
WS == Tok("ws")
JSONWORD == Tok("json")
CH == Tok("ch")

-----------------------------------------------------------------------------
(* extractJSON: main.go 310-316 (the same body as test-cli/main.go 211-217) *)

IsWS(tok) == tok.t = "ws"

RECURSIVE DropLeadingWS(_)
DropLeadingWS(s) ==
    IF s # <<>> /\ IsWS(Head(s)) THEN DropLeadingWS(Tail(s)) ELSE s

RECURSIVE DropTrailingWS(_)
DropTrailingWS(s) ==
    IF s # <<>> /\ IsWS(s[Len(s)])
    THEN DropTrailingWS(SubSeq(s, 1, Len(s) - 1))
    ELSE s

\* strings.TrimSpace
TrimSpace(s) == DropTrailingWS(DropLeadingWS(s))

\* the text begins with three backticks
StartsWithFence(s) ==
    Len(s) >= 3 /\ s[1].t = "bt" /\ s[2].t = "bt" /\ s[3].t = "bt"

\* mutant: the expression without the optional (?:json) group
AfterCodeBlockMatch_NoJsonGroup(s) ==
    DropLeadingWS(SubSeq(s, 4, Len(s)))

\* the rest of the text after one leftmost match of ```(?:json)?\s* at its
\* start: the optional group and the star are both greedy
AfterCodeBlockMatch(s) ==
    LET a == SubSeq(s, 4, Len(s))
        b == IF a # <<>> /\ Head(a).t = "json" THEN Tail(a) ELSE a
    IN  DropLeadingWS(b)

\* codeBlockRe.ReplaceAllString(s, ""): leftmost, non-overlapping matches
RECURSIVE codeBlockRe_ReplaceAll(_)
codeBlockRe_ReplaceAll(s) ==
    IF s = <<>> THEN <<>>
    ELSE IF StartsWithFence(s)
         THEN codeBlockRe_ReplaceAll(AfterCodeBlockMatch(s))
         ELSE <<Head(s)>> \o codeBlockRe_ReplaceAll(Tail(s))

\* strings.ReplaceAll(s, "```", "")
RECURSIVE ReplaceAllFences(_)
ReplaceAllFences(s) ==
    IF s = <<>> THEN <<>>
    ELSE IF StartsWithFence(s)
         THEN ReplaceAllFences(SubSeq(s, 4, Len(s)))
         ELSE <<Head(s)>> \o ReplaceAllFences(Tail(s))

extractJSON(s) == TrimSpace(ReplaceAllFences(codeBlockRe_ReplaceAll(s)))

-----------------------------------------------------------------------------
(* json.Unmarshal into parsedJSON / itemJSON: main.go 245-260, 266.        *)
(* Members are taken in document order.  A key selects a field when it     *)
(* equals the field's tag, ignoring case.  null leaves a string untouched  *)
(* and sets a pointer or slice to nil.  A value of the wrong JSON type, or *)
(* a number outside float64, is skipped and makes Unmarshal return an      *)
(* error.  A key that selects no field is ignored.                         *)

\* the text is one JSON value, with optional whitespace around it
SyntaxValid(text) ==
    LET t == TrimSpace(text) IN Len(t) = 1 /\ t[1].t = "doc"
SyntaxTree(text) == TrimSpace(text)[1].d

\* the struct tag a key selects, case folded
FoldKey(key) ==
    CASE key = "Merchant" -> "merchant"
      [] key = "QTY" -> "qty"
      [] OTHER -> key

\* a field of Go type string
StringField(cur, v) ==
    IF v.k = "str" THEN [v |-> v.s, bad |-> FALSE]
    ELSE IF v.k = "null" THEN [v |-> cur, bad |-> FALSE]
    ELSE [v |-> cur, bad |-> TRUE]

\* a field of Go type *string
StringPtrField(cur, v) ==
    IF v.k = "str" THEN [v |-> Ptr(v.s), bad |-> FALSE]
    ELSE IF v.k = "null" THEN [v |-> Nil, bad |-> FALSE]
    ELSE [v |-> cur, bad |-> TRUE]

\* mutant: a lenient decoder that skips a mistyped number without an error
FloatPtrField_Lenient(cur, v) ==
    IF v.k = "num" THEN [v |-> Ptr(v.n), bad |-> FALSE]
    ELSE IF v.k = "null" THEN [v |-> Nil, bad |-> FALSE]
    ELSE [v |-> cur, bad |-> FALSE]

\* a field of Go type *float64
FloatPtrField(cur, v) ==
    IF v.k = "num" THEN [v |-> Ptr(v.n), bad |-> FALSE]
    ELSE IF v.k = "null" THEN [v |-> Nil, bad |-> FALSE]
    ELSE [v |-> cur, bad |-> TRUE]

\* zero value of itemJSON
itemJSON == [Raw |-> "", Name |-> "", Qty |-> Nil, UnitPrice |-> Nil]

ItemMember(acc, mem) ==
    LET f == FoldKey(mem.key)
        it == acc.v
    IN  CASE f = "raw" ->
               LET r == StringField(it.Raw, mem.val)
               IN  [v |-> [it EXCEPT !.Raw = r.v], bad |-> acc.bad \/ r.bad]
          [] f = "name" ->
               LET r == StringField(it.Name, mem.val)
               IN  [v |-> [it EXCEPT !.Name = r.v], bad |-> acc.bad \/ r.bad]
          [] f = "qty" ->
               LET r == FloatPtrField(it.Qty, mem.val)
               IN  [v |-> [it EXCEPT !.Qty = r.v], bad |-> acc.bad \/ r.bad]
          [] f = "unit_price" ->
               LET r == FloatPtrField(it.UnitPrice, mem.val)
               IN  [v |-> [it EXCEPT !.UnitPrice = r.v], bad |-> acc.bad \/ r.bad]
          [] OTHER -> acc

RECURSIVE ItemMembers(_, _)
ItemMembers(ms, acc) ==
    IF ms = <<>> THEN acc ELSE ItemMembers(Tail(ms), ItemMember(acc, Head(ms)))

\* one element of the "items" array into an itemJSON
UnmarshalItem(v) ==
    IF v.k = "obj" THEN ItemMembers(v.m, [v |-> itemJSON, bad |-> FALSE])
    ELSE IF v.k = "null" THEN [v |-> itemJSON, bad |-> FALSE]
    ELSE [v |-> itemJSON, bad |-> TRUE]

\* a field of Go type []itemJSON
ItemsField(cur, v) ==
    IF v.k = "arr"
    THEN [v |-> [i \in 1..Len(v.e) |-> UnmarshalItem(v.e[i]).v],
          bad |-> \E i \in 1..Len(v.e) : UnmarshalItem(v.e[i]).bad]
    ELSE IF v.k = "null" THEN [v |-> <<>>, bad |-> FALSE]
    ELSE [v |-> cur, bad |-> TRUE]

\* zero value of parsedJSON
parsedJSON ==
    [Merchant |-> "", Date |-> Nil, Currency |-> "", Items |-> <<>>,
     Subtotal |-> Nil, Tax |-> Nil, Total |-> Nil]

ParsedMember(acc, mem) ==
    LET f == FoldKey(mem.key)
        p == acc.v
    IN  CASE f = "merchant" ->
               LET r == StringField(p.Merchant, mem.val)
               IN  [v |-> [p EXCEPT !.Merchant = r.v], bad |-> acc.bad \/ r.bad]
          [] f = "date" ->
               LET r == StringPtrField(p.Date, mem.val)
               IN  [v |-> [p EXCEPT !.Date = r.v], bad |-> acc.bad \/ r.bad]
          [] f = "currency" ->
               LET r == StringField(p.Currency, mem.val)
               IN  [v |-> [p EXCEPT !.Currency = r.v], bad |-> acc.bad \/ r.bad]
          [] f = "items" ->
               LET r == ItemsField(p.Items, mem.val)
               IN  [v |-> [p EXCEPT !.Items = r.v], bad |-> acc.bad \/ r.bad]
          [] f = "subtotal" ->
               LET r == FloatPtrField(p.Subtotal, mem.val)
               IN  [v |-> [p EXCEPT !.Subtotal = r.v], bad |-> acc.bad \/ r.bad]
          [] f = "tax" ->
               LET r == FloatPtrField(p.Tax, mem.val)
               IN  [v |-> [p EXCEPT !.Tax = r.v], bad |-> acc.bad \/ r.bad]
          [] f = "total" ->
               LET r == FloatPtrField(p.Total, mem.val)
               IN  [v |-> [p EXCEPT !.Total = r.v], bad |-> acc.bad \/ r.bad]
          [] OTHER -> acc

RECURSIVE ParsedMembers(_, _)
ParsedMembers(ms, acc) ==
    IF ms = <<>> THEN acc
    ELSE ParsedMembers(Tail(ms), ParsedMember(acc, Head(ms)))

\* json.Unmarshal([]byte(jsonStr), &p): [p, err]
Unmarshal(text) ==
    IF ~SyntaxValid(text) THEN [p |-> parsedJSON, err |-> "syntax error"]
    ELSE LET v == SyntaxTree(text)
         IN  IF v.k = "obj"
             THEN LET r == ParsedMembers(v.m, [v |-> parsedJSON, bad |-> FALSE])
                  IN  [p |-> r.v,
                       err |-> IF r.bad THEN "cannot unmarshal" ELSE "nil"]
             ELSE IF v.k = "null" THEN [p |-> parsedJSON, err |-> "nil"]
             ELSE [p |-> parsedJSON, err |-> "cannot unmarshal"]

-----------------------------------------------------------------------------
(* parseResponse: main.go 262-308 *)

\* mutant: the quantity default forgotten, leaving the proto zero value
pbItem_NoQtyDefault(item) ==
    [Raw |-> item.Raw,
     Name |-> IF item.Name # "" THEN Ptr(item.Name) ELSE Nil,
     Qty |-> IF item.Qty # Nil THEN item.Qty[1] ELSE 0,
     UnitPrice |-> IF item.UnitPrice # Nil THEN item.UnitPrice[1] ELSE 0]

\* the loop body, main.go 292-304; UnitPrice keeps the proto zero value
\* when the pointer is nil
pbItem(item) ==
    [Raw |-> item.Raw,
     Name |-> IF item.Name # "" THEN Ptr(item.Name) ELSE Nil,
     Qty |-> IF item.Qty # Nil THEN item.Qty[1] ELSE QtyDefault,
     UnitPrice |-> IF item.UnitPrice # Nil THEN item.UnitPrice[1] ELSE 0]

\* main.go 270-307: the receipt built from a decoded parsedJSON
ParsedReceipt(p) ==
    [Merchant |-> IF p.Merchant # "" THEN Ptr(p.Merchant) ELSE Nil,
     Date |-> p.Date,
     Currency |-> IF p.Currency # "" THEN Ptr(p.Currency) ELSE Nil,
     Items |-> [i \in 1..Len(p.Items) |-> pbItem(p.Items[i])],
     Subtotal |-> p.Subtotal,
     Tax |-> p.Tax,
     Total |-> p.Total,
     Confidence |-> 0]

\* [receipt, err]: (nil, error) or (receipt, nil)
parseResponse(text) ==
    LET jsonStr == extractJSON(text)
        u == Unmarshal(jsonStr)
    IN  IF u.err # "nil"
        THEN [receipt |-> Nil, err |-> "invalid JSON"]
        ELSE [receipt |-> Ptr(ParsedReceipt(u.p)), err |-> "nil"]

-----------------------------------------------------------------------------
(* calcConfidence: main.go 318-351.  Scores are in tenths, amounts in      *)
(* tenths, products qty * unit_price in hundredths.                        *)

RECURSIVE SumItems(_)
SumItems(items) ==
    IF items = <<>> THEN 0
    ELSE Head(items).Qty * Head(items).UnitPrice + SumItems(Tail(items))

\* mutant: a strict comparison, which drops the boundary
withinTolerance_Strict(sum, subtotal) ==
    100 * Abs(sum - 10 * subtotal) < 5 * (10 * subtotal)

\* main.go 340-341: diff <= subtotal * 0.05, with sum in hundredths and
\* subtotal in tenths
withinTolerance(sum, subtotal) ==
    100 * Abs(sum - 10 * subtotal) <= 5 * (10 * subtotal)

\* mutant: a mismatch is penalised instead of ignored
Bonus_Penalty(r) ==
    IF r.Subtotal # Nil /\ Len(r.Items) > 0
    THEN IF withinTolerance(SumItems(r.Items), r.Subtotal[1])
         THEN Step ELSE 0 - Step
    ELSE 0

\* main.go 334-345
Bonus(r) ==
    IF r.Subtotal # Nil /\ Len(r.Items) > 0
    THEN IF withinTolerance(SumItems(r.Items), r.Subtotal[1]) THEN Step ELSE 0
    ELSE 0

calcConfidence(r) ==
    LET score == Base
                 + (IF r.Merchant # Nil THEN Step ELSE 0)
                 + (IF r.Date # Nil THEN Step ELSE 0)
                 + (IF r.Total # Nil THEN Step ELSE 0)
                 + (IF Len(r.Items) > 0 THEN Step ELSE 0)
                 + Bonus(r)
    IN  IF score > Cap THEN Cap ELSE score

-----------------------------------------------------------------------------
(* errorResponse: main.go 353-358, and the success response of line 183 *)

OCRError(code, msg) == [Code |-> code, Message |-> msg]

\* mutant: a failure that still carries a (blank) record
errorResponse_WithData(code, msg) ==
    [Success |-> FALSE,
     Data |-> Ptr([Merchant |-> Nil, Date |-> Nil, Currency |-> Nil,
                   Items |-> <<>>, Subtotal |-> Nil, Tax |-> Nil,
                   Total |-> Nil, Confidence |-> 0]),
     Error |-> Ptr(OCRError(code, msg))]

errorResponse(code, msg) ==
    [Success |-> FALSE, Data |-> Nil, Error |-> Ptr(OCRError(code, msg))]

successResponse(r) ==
    [Success |-> TRUE, Data |-> Ptr(r), Error |-> Nil]

NoResponse == [Success |-> FALSE, Data |-> Nil, Error |-> Nil]

-----------------------------------------------------------------------------
(* Inputs *)

\* the three shapes of a model reply: bare, ```json ... ```, ``` ... ```
Wraps == {"bare", "json", "plain"}
Wrapped(w, text) ==
    CASE w = "json" -> <<BT, BT, BT, JSONWORD, WS>> \o text \o <<WS, BT, BT, BT>>
      [] w = "plain" -> <<BT, BT, BT, WS>> \o text \o <<WS, BT, BT, BT>>
      [] OTHER -> text

\* {"raw":"EGGS","name":"Eggs","qty":1,"unit_price":4.5}
EggsItem ==
    JObj(<<Member("raw", JStr("EGGS")), Member("name", JStr("Eggs")),
           Member("qty", JNum(10)), Member("unit_price", JNum(45))>>)

\* the reply of the end-to-end scenario
AcmeDoc ==
    JObj(<<Member("merchant", JStr("Acme")), Member("currency", JStr("CAD")),
           Member("items", JArr(<<EggsItem>>)),
           Member("subtotal", JNum(45)), Member("total", JNum(45))>>)

\* valid JSON with a total of the wrong JSON type
MistypedDoc ==
    JObj(<<Member("merchant", JStr("Acme")), Member("total", JStr("4.50"))>>)

\* what a backend may answer
Replies ==
    {Wrapped("json", <<DocTok(AcmeDoc)>>),
     <<DocTok(AcmeDoc)>>,
     <<DocTok(JObj(<<>>))>>,
     <<DocTok(MistypedDoc)>>,
     <<CH, CH, WS, CH>>,
     <<>>}

\* the non-deadline ways a backend call fails
FailureCauses == {"transport", "status", "malformed"}

ImageSizes ==
    {0, 1, maxImageSize - 1, maxImageSize, maxImageSize + 1, 2 * maxImageSize}

NoDeadline == MaxTime + timeout + 1

-----------------------------------------------------------------------------
(* ParseReceipt: main.go 150-184 *)

\* mutant: an off-by-one ceiling
ImageProblem_OffByOne(size) ==
    IF size = 0 THEN "empty image"
    ELSE IF size >= maxImageSize THEN "image exceeds 5MB limit"
    ELSE ""

\* main.go 153-158: the message of the rejection, "" when the image passes
ImageProblem(size) ==
    IF size = 0 THEN "empty image"
    ELSE IF size > maxImageSize THEN "image exceeds 5MB limit"
    ELSE ""

\* callModel, main.go 201-206: which client is called
callModel(prov) == IF prov = "gemini" THEN "callGemini" ELSE "callOllama"

IsBackendStage(st) == st \in {"callGemini", "callOllama"}

\* the deadline of the context the handler holds: the caller's before line
\* 160, the earlier of the caller's and started + timeout after it
Deadline ==
    IF pc = "idle" THEN callerDeadline
    ELSE Min(callerDeadline, started + timeout)

\* mutant: any done context counts as a timeout
failureResponse_AnyCtxErr(ctxE, cause) ==
    IF ctxE # "nil"
    THEN errorResponse("TIMEOUT", "inference timeout")
    ELSE errorResponse("MODEL_ERROR", cause)

\* main.go 167-170: the response for a failed call, given ctx.Err()
failureResponse(ctxE, cause) ==
    IF ctxE = "DeadlineExceeded"
    THEN errorResponse("TIMEOUT", "inference timeout")
    ELSE errorResponse("MODEL_ERROR", cause)

\* main.go 173-183: the response for a reply
replyResponse(text) ==
    LET r == parseResponse(text)
    IN  IF r.err # "nil"
        THEN errorResponse("PARSE_FAILED", r.err)
        ELSE successResponse(
                 [r.receipt[1] EXCEPT !.Confidence = calcConfidence(r.receipt[1])])

\* the stages lines 173-183 run for a reply
replyStages(text) ==
    IF parseResponse(text).err # "nil"
    THEN <<"parseResponse">>
    ELSE <<"parseResponse", "calcConfidence">>

PureIdle ==
    /\ body = <<>>
    /\ wrap = "bare"
    /\ parsed = Nil
    /\ receipt = Nil
    /\ conf = 0
    /\ prevConf = 0

Init ==
    /\ pc = "idle"
    /\ provider \in {"ollama", "gemini"}
    /\ imageSize \in ImageSizes
    /\ now = 0
    /\ started = 0
    /\ callerDeadline \in (1..MaxTime) \cup {NoDeadline}
    /\ ctxErr = "nil"
    /\ callErr = "nil"
    /\ raw = <<>>
    /\ resp = NoResponse
    /\ rpcErr = "unset"
    /\ stages = <<>>
    /\ cancelledInFlight = FALSE
    /\ PureIdle

\* main.go 151-164: validation, then context.WithTimeout and the call
ParseReceiptEnter ==
    /\ pc = "idle"
    /\ IF ImageProblem(imageSize) # ""
       THEN /\ resp' = errorResponse("INVALID_IMAGE", ImageProblem(imageSize))
            /\ rpcErr' = "nil"
            /\ stages' = <<"validate">>
            /\ pc' = "done"
            /\ UNCHANGED started
       ELSE /\ started' = now
            /\ stages' = <<"validate", callModel(provider)>>
            /\ pc' = "calling"
            /\ UNCHANGED <<resp, rpcErr>>
    /\ UNCHANGED <<provider, imageSize, now, callerDeadline, ctxErr, callErr,
                   raw, cancelledInFlight, parseVars, scoreVars>>

\* the backend answers with a text before the context is done
BackendReply(text) ==
    /\ pc = "calling"
    /\ ctxErr = "nil"
    /\ raw' = text
    /\ pc' = "replied"
    /\ UNCHANGED <<orchVars, parseVars, scoreVars>>

\* mutant: a failed call is retried
BackendFail_Retry(cause) ==
    /\ pc = "calling"
    /\ ctxErr = "nil"
    /\ Len(stages) < 4
    /\ callErr' = cause
    /\ stages' = Append(stages, callModel(provider))
    /\ pc' = "calling"
    /\ UNCHANGED <<provider, imageSize, now, started, callerDeadline, ctxErr,
                   raw, resp, rpcErr, cancelledInFlight,
                   parseVars, scoreVars>>

\* the backend call fails for a reason of its own before the context is done
BackendFail(cause) ==
    /\ pc = "calling"
    /\ ctxErr = "nil"
    /\ callErr' = cause
    /\ pc' = "failed"
    /\ UNCHANGED <<provider, imageSize, now, started, callerDeadline, ctxErr,
                   raw, resp, rpcErr, stages, cancelledInFlight,
                   parseVars, scoreVars>>

\* the client aborts the call because the context is done and returns ctx.Err()
BackendAbort ==
    /\ pc = "calling"
    /\ ctxErr # "nil"
    /\ callErr' = ctxErr
    /\ pc' = "failed"
    /\ UNCHANGED <<provider, imageSize, now, started, callerDeadline, ctxErr,
                   raw, resp, rpcErr, stages, cancelledInFlight,
                   parseVars, scoreVars>>

\* main.go 165-171: err != nil; ctx.Err() is read after the call returned
HandleError ==
    /\ pc = "failed"
    /\ resp' = failureResponse(ctxErr, callErr)
    /\ rpcErr' = "nil"
    /\ pc' = "done"
    /\ UNCHANGED <<provider, imageSize, now, started, callerDeadline, ctxErr,
                   callErr, raw, stages, cancelledInFlight,
                   parseVars, scoreVars>>

\* main.go 173-183
HandleReply ==
    /\ pc = "replied"
    /\ resp' = replyResponse(raw)
    /\ rpcErr' = "nil"
    /\ stages' = stages \o replyStages(raw)
    /\ pc' = "done"
    /\ UNCHANGED <<provider, imageSize, now, started, callerDeadline, ctxErr,
                   callErr, raw, cancelledInFlight, parseVars, scoreVars>>

\* a minute passes; the context's timer fires at its deadline unless the
\* context is already done
Tick ==
    /\ pc # "done"
    /\ now < MaxTime
    /\ now' = now + 1
    /\ ctxErr' = IF ctxErr = "nil" /\ now + 1 >= Deadline
                 THEN "DeadlineExceeded" ELSE ctxErr
    /\ UNCHANGED <<pc, provider, imageSize, started, callerDeadline, callErr,
                   raw, resp, rpcErr, stages, cancelledInFlight,
                   parseVars, scoreVars>>

\* the caller cancels its context
CallerCancel ==
    /\ pc # "done"
    /\ ctxErr = "nil"
    /\ ctxErr' = "Canceled"
    /\ cancelledInFlight' = (pc = "calling")
    /\ UNCHANGED <<pc, provider, imageSize, now, started, callerDeadline,
                   callErr, raw, resp, rpcErr, stages, parseVars, scoreVars>>

Next ==
    \/ ParseReceiptEnter
    \/ \E text \in Replies : BackendReply(text)
    \/ \E cause \in FailureCauses : BackendFail(cause)
    \/ BackendAbort
    \/ HandleError
    \/ HandleReply
    \/ Tick
    \/ CallerCancel

Spec == Init /\ [][Next]_vars

-----------------------------------------------------------------------------
(* Properties of ParseReceipt, checked under Spec *)

ErrorCodes == {"INVALID_IMAGE", "TIMEOUT", "MODEL_ERROR", "PARSE_FAILED"}

\* the error code of a response, "none" when it carries no error
CodeOf(r) == IF r.Error = Nil THEN "none" ELSE r.Error[1].Code

BackendStages == {i \in 1..Len(stages) : IsBackendStage(stages[i])}

\* C1: a request whose image is empty or longer than 5 MiB never reaches
\* the backend and, once answered, is answered success=false with
\* INVALID_IMAGE; an image of exactly 5 MiB is not answered INVALID_IMAGE
\* and does reach the backend.
C1_InvalidImageNeverReachesBackend ==
    /\ (imageSize = 0 \/ imageSize > maxImageSize) =>
           /\ BackendStages = {}
           /\ pc \in {"idle", "done"}
           /\ pc = "done" => ~resp.Success /\ CodeOf(resp) = "INVALID_IMAGE"
    /\ (imageSize = maxImageSize /\ pc # "idle") =>
           /\ CodeOf(resp) # "INVALID_IMAGE"
           /\ BackendStages # {}

C1_Witness ==
    /\ pc = "done"
    /\ imageSize > maxImageSize
    /\ CodeOf(resp) = "INVALID_IMAGE"
    /\ BackendStages = {}

\* C2: when the backend call failed, the response is TIMEOUT exactly when
\* the call failed because the deadline (the earlier of the caller's and
\* started + 5 minutes) expired, and MODEL_ERROR for every other failure.
C2_TimeoutIffDeadlineExpiry ==
    (pc = "done" /\ callErr # "nil") =>
        /\ CodeOf(resp) = "TIMEOUT" <=> callErr = "DeadlineExceeded"
        /\ CodeOf(resp) = "MODEL_ERROR" <=> callErr # "DeadlineExceeded"

\* C3 as stated: a call the caller cancelled in flight is answered TIMEOUT.
C3_CancelInFlightGivesTimeout ==
    (pc = "done" /\ cancelledInFlight) => CodeOf(resp) = "TIMEOUT"

\* C3 as amended: when the caller cancels while the backend call is in
\* flight, the call is aborted with the context's error, nothing is decoded,
\* and the response is MODEL_ERROR, never TIMEOUT.
C3_CancelInFlightGivesModelError ==
    cancelledInFlight =>
        /\ ctxErr = "Canceled"
        /\ pc \in {"calling", "failed", "done"}
        /\ pc # "calling" => callErr = "Canceled"
        /\ pc = "done" =>
               /\ ~resp.Success
               /\ CodeOf(resp) = "MODEL_ERROR"
               /\ Len(stages) = 2

C3_Witness ==
    /\ pc = "done"
    /\ cancelledInFlight
    /\ callErr = "Canceled"
    /\ CodeOf(resp) = "MODEL_ERROR"

\* C4: every call returns a response and a nil error, and the response is
\* either success with a record and no error, or failure with no record and
\* one error whose code is one of the four kinds.
C4_StructuredResponse ==
    /\ pc = "done" =>
           /\ rpcErr = "nil"
           /\ \/ resp.Success /\ Len(resp.Data) = 1 /\ resp.Error = Nil
              \/ /\ ~resp.Success
                 /\ resp.Data = Nil
                 /\ Len(resp.Error) = 1
                 /\ CodeOf(resp) \in ErrorCodes
    /\ pc # "done" => rpcErr = "unset" /\ resp = NoResponse

C4_Witness ==
    /\ pc = "done"
    /\ ~resp.Success
    /\ resp.Data = Nil
    /\ CodeOf(resp) = "PARSE_FAILED"

\* the position of a stage in the pipeline
StageRank(st) ==
    CASE st = "validate" -> 1
      [] IsBackendStage(st) -> 2
      [] st = "parseResponse" -> 3
      [] st = "calcConfidence" -> 4
      [] OTHER -> 0

\* C10: the stages run in the order validation, backend call, decode,
\* scoring, each at most once; the backend is called exactly once for an
\* image that passes validation; the first failing stage ends the call with
\* its kind; decoding needs a reply and scoring a decoded record.
C10_StagesInOrderNoRetry ==
    /\ \A i \in 1..Len(stages) : StageRank(stages[i]) = i
    /\ Cardinality(BackendStages) <= 1
    /\ (pc # "idle" /\ imageSize > 0 /\ imageSize <= maxImageSize) =>
           Cardinality(BackendStages) = 1
    /\ Len(stages) >= 3 => callErr = "nil" /\ pc = "done"
    /\ pc = "done" =>
           Len(stages) = CASE CodeOf(resp) = "INVALID_IMAGE" -> 1
                            [] CodeOf(resp) \in {"TIMEOUT", "MODEL_ERROR"} -> 2
                            [] CodeOf(resp) = "PARSE_FAILED" -> 3
                            [] OTHER -> 4
    /\ pc = "done" /\ resp.Success => parseResponse(raw).err = "nil"

C10_Witness ==
    /\ pc = "done"
    /\ resp.Success
    /\ stages = <<"validate", "callGemini", "parseResponse", "calcConfidence">>

-----------------------------------------------------------------------------
(* parseResponse on its own: every generated reply, in every wrapping *)

\* members of a generated top-level object
ScalarMembers ==
    {Member("merchant", JStr("Acme")),
     Member("Merchant", JNum(7)),
     Member("date", JStr("2024-01-02")),
     Member("currency", JStr("CAD")),
     Member("subtotal", JNum(0)),
     Member("total", JNull),
     Member("total", JStr("4.50")),
     Member("tax", JBig),
     Member("extra", JBool)}

\* elements of a generated "items" array
ItemValues ==
    {EggsItem,
     JObj(<<Member("raw", JStr(""))>>),
     JObj(<<Member("raw", JStr("MILK")), Member("name", JNull),
            Member("qty", JNull), Member("unit_price", JNum(0)),
            Member("sku", JStr("x"))>>),
     JObj(<<Member("raw", JStr("TEA")), Member("QTY", JStr("two"))>>)}

\* the "items" member of a generated object: none, null, an object, an array
ItemsMembers ==
    {<<>>, <<Member("items", JNull)>>, <<Member("items", JObj(<<>>))>>}
    \cup {<<Member("items", JArr(a))>> : a \in SeqsUpTo(ItemValues, MaxItems)}

ObjectDocs ==
    {JObj(ms \o im) : ms \in SeqsUpTo(ScalarMembers, MaxMembers),
                      im \in ItemsMembers}

\* texts that are one JSON value
JSONTexts ==
    {<<DocTok(v)>> : v \in ObjectDocs}
    \cup {<<DocTok(AcmeDoc)>>, <<WS, DocTok(AcmeDoc), WS>>,
          <<DocTok(JNull)>>, <<DocTok(JArr(<<>>))>>,
          <<DocTok(JStr("Acme"))>>, <<DocTok(JNum(45))>>}

\* texts that are not: prose, junk after the value, two values, nothing, a
\* stray backtick, an unclosed fence
NonJSONTexts ==
    {<<CH, CH, WS, CH>>,
     <<DocTok(AcmeDoc), CH>>,
     <<DocTok(AcmeDoc), WS, DocTok(AcmeDoc)>>,
     <<>>,
     <<JSONWORD>>,
     <<CH, BT, DocTok(AcmeDoc), BT>>,
     <<CH, WS, BT, BT, BT, JSONWORD, DocTok(AcmeDoc)>>}

\* free texts that, like a JSON object text, begin and end with a character
\* that is neither whitespace nor a backtick, with anything in between
BracketedTexts ==
    {<<CH>> \o mid \o <<CH>> : mid \in SeqsUpTo({BT, WS, JSONWORD, CH}, MaxInner)}

Bodies == JSONTexts \cup NonJSONTexts \cup BracketedTexts

InitParse ==
    /\ pc = "parse"
    /\ body \in Bodies
    /\ wrap \in Wraps
    /\ raw = Wrapped(wrap, body)
    /\ parsed = Nil
    /\ resp = NoResponse
    /\ provider = "ollama"
    /\ imageSize = 1
    /\ now = 0
    /\ started = 0
    /\ callerDeadline = NoDeadline
    /\ ctxErr = "nil"
    /\ callErr = "nil"
    /\ rpcErr = "unset"
    /\ stages = <<>>
    /\ cancelledInFlight = FALSE
    /\ receipt = Nil
    /\ conf = 0
    /\ prevConf = 0

\* main.go 173-183 applied to raw
RunParseResponse ==
    /\ pc = "parse"
    /\ parsed' = Ptr(parseResponse(raw))
    /\ resp' = replyResponse(raw)
    /\ pc' = "done"
    /\ UNCHANGED <<provider, imageSize, now, started, callerDeadline, ctxErr,
                   callErr, raw, rpcErr, stages, cancelledInFlight,
                   body, wrap, scoreVars>>

NextParse == RunParseResponse

SpecParse == InitParse /\ [][NextParse]_vars

-----------------------------------------------------------------------------
(* calcConfidence on its own: every generated receipt, then fields added *)

ScoreItem(q, p) == [Raw |-> "x", Name |-> Nil, Qty |-> q, UnitPrice |-> p]

\* 1 x 4.5, 1 x 95.0, 1 x 104.9, 1 x 105.0, 1 x 106.0, 2 x 50.0
ScoreItems ==
    {ScoreItem(10, 45), ScoreItem(10, 950), ScoreItem(10, 1049),
     ScoreItem(10, 1050), ScoreItem(10, 1060), ScoreItem(20, 500)}

\* 0, 4.5, 100.0, -4.5
Subtotals == {0, 45, 1000, 0 - 45}

Receipts ==
    [Merchant : {Nil, Ptr("Acme")},
     Date : {Nil, Ptr("2024-01-02")},
     Currency : {Nil},
     Items : SeqsUpTo(ScoreItems, MaxItems),
     Subtotal : {Nil} \cup {Ptr(a) : a \in Subtotals},
     Tax : {Nil},
     Total : {Nil, Ptr(45)},
     Confidence : {0}]

InitScore ==
    /\ pc = "score"
    /\ receipt \in {Ptr(r) : r \in Receipts}
    /\ conf = 0
    /\ prevConf = 0
    /\ body = <<>>
    /\ wrap = "bare"
    /\ raw = <<>>
    /\ parsed = Nil
    /\ resp = NoResponse
    /\ provider = "ollama"
    /\ imageSize = 1
    /\ now = 0
    /\ started = 0
    /\ callerDeadline = NoDeadline
    /\ ctxErr = "nil"
    /\ callErr = "nil"
    /\ rpcErr = "unset"
    /\ stages = <<>>
    /\ cancelledInFlight = FALSE

\* main.go 179
RunCalcConfidence ==
    /\ pc = "score"
    /\ conf' = calcConfidence(receipt[1])
    /\ prevConf' = conf
    /\ pc' = "scored"
    /\ UNCHANGED <<orchVars, raw, parseVars, receipt>>

\* the same receipt with one more field present, scored again
Rescore(r) ==
    /\ pc \in {"scored", "added"}
    /\ receipt' = Ptr(r)
    /\ prevConf' = conf
    /\ conf' = calcConfidence(r)
    /\ pc' = "added"
    /\ UNCHANGED <<orchVars, raw, parseVars>>

AddMerchant ==
    /\ receipt[1].Merchant = Nil
    /\ Rescore([receipt[1] EXCEPT !.Merchant = Ptr("Acme")])

AddDate ==
    /\ receipt[1].Date = Nil
    /\ Rescore([receipt[1] EXCEPT !.Date = Ptr("2024-01-02")])

AddTotal ==
    /\ receipt[1].Total = Nil
    /\ Rescore([receipt[1] EXCEPT !.Total = Ptr(45)])

AddSubtotal(a) ==
    /\ receipt[1].Subtotal = Nil
    /\ Rescore([receipt[1] EXCEPT !.Subtotal = Ptr(a)])

AddItems(items) ==
    /\ receipt[1].Items = <<>>
    /\ items # <<>>
    /\ Rescore([receipt[1] EXCEPT !.Items = items])

NextScore ==
    \/ RunCalcConfidence
    \/ AddMerchant
    \/ AddDate
    \/ AddTotal
    \/ \E a \in Subtotals : AddSubtotal(a)
    \/ \E items \in SeqsUpTo(ScoreItems, MaxItems) : AddItems(items)

SpecScore == InitScore /\ [][NextScore]_vars

-----------------------------------------------------------------------------
(* Properties of parseResponse, checked under SpecParse *)

\* the candidate text handed to json.Unmarshal
Candidate == extractJSON(raw)

\* the value of a member fits the Go type of the field its key selects
ItemMemberFits(mem) ==
    /\ FoldKey(mem.key) \in {"raw", "name"} => mem.val.k \in {"str", "null"}
    /\ FoldKey(mem.key) \in {"qty", "unit_price"} => mem.val.k \in {"num", "null"}

ItemFits(v) ==
    \/ v.k = "null"
    \/ v.k = "obj" /\ \A i \in 1..Len(v.m) : ItemMemberFits(v.m[i])

MemberFits(mem) ==
    /\ FoldKey(mem.key) \in {"merchant", "currency", "date"} =>
           mem.val.k \in {"str", "null"}
    /\ FoldKey(mem.key) \in {"subtotal", "tax", "total"} =>
           mem.val.k \in {"num", "null"}
    /\ FoldKey(mem.key) = "items" =>
           \/ mem.val.k = "null"
           \/ /\ mem.val.k = "arr"
              /\ \A j \in 1..Len(mem.val.e) : ItemFits(mem.val.e[j])

\* the JSON value is null, or an object in which every member whose key
\* selects a field has null or a value of the field's type
WellTyped(v) ==
    \/ v.k = "null"
    \/ v.k = "obj" /\ \A i \in 1..Len(v.m) : MemberFits(v.m[i])

\* C5 as stated, for a candidate text that is not JSON or is a JSON object:
\* parseResponse fails, and ParseReceipt answers PARSE_FAILED, exactly when
\* the candidate text is not syntactically valid JSON; a JSON object with
\* extra members, missing members or members of another shape is decoded.
C5_FailsOnlyOnInvalidSyntax ==
    (pc = "done" /\ (SyntaxValid(Candidate) => SyntaxTree(Candidate).k = "obj")) =>
        /\ parsed[1].err = "nil" <=> SyntaxValid(Candidate)
        /\ parsed[1].receipt # Nil <=> SyntaxValid(Candidate)
        /\ CodeOf(resp) = "PARSE_FAILED" <=> ~SyntaxValid(Candidate)

\* C5 as amended: parseResponse fails, returning no record, and
\* ParseReceipt answers PARSE_FAILED, exactly when the candidate text is not
\* syntactically valid JSON, or is valid JSON that is neither null nor an
\* object, or in which a member whose key selects a field (at top level or
\* in an item, ignoring case) holds a value that is neither null nor of the
\* field's type, a number outside float64 included.  Unknown members and
\* missing members never make it fail.
C5_FailsOnInvalidSyntaxOrType ==
    pc = "done" =>
        LET good == SyntaxValid(Candidate) /\ WellTyped(SyntaxTree(Candidate))
        IN  /\ parsed[1].err = "nil" <=> good
            /\ parsed[1].receipt # Nil <=> good
            /\ CodeOf(resp) = "PARSE_FAILED" <=> ~good
            /\ resp.Success <=> good

C5_Witness ==
    /\ pc = "done"
    /\ SyntaxValid(Candidate)
    /\ SyntaxTree(Candidate).k = "obj"
    /\ ~WellTyped(SyntaxTree(Candidate))
    /\ \E i \in 1..Len(SyntaxTree(Candidate).m) :
           SyntaxTree(Candidate).m[i].key = "extra"
    /\ parsed[1].receipt = Nil
    /\ CodeOf(resp) = "PARSE_FAILED"

\* the text is one JSON object, with optional whitespace around it
IsObjectText(text) == SyntaxValid(text) /\ SyntaxTree(text).k = "obj"

\* the text begins and ends with a character that is neither whitespace nor
\* a backtick, as a JSON object text does with its braces
IsBracketed(text) ==
    /\ text # <<>>
    /\ Head(text).t \in {"ch", "doc"}
    /\ text[Len(text)].t \in {"ch", "doc"}

\* C6: for a JSON object text J, the bare J, J in a ```json fence and J in
\* a plain ``` fence give the same candidate text and the same outcome of
\* parseResponse (the same record or the same failure); the candidate is
\* the same for any text between two such characters, fences inside it
\* included.
C6_FenceWrappingIsNoOp ==
    /\ IsObjectText(body) =>
           /\ extractJSON(raw) = TrimSpace(body)
           /\ pc = "done" =>
                  /\ parsed[1] = parseResponse(body)
                  /\ resp = replyResponse(body)
    /\ IsBracketed(body) =>
           /\ extractJSON(raw) = extractJSON(body)
           /\ pc = "done" =>
                  /\ parsed[1] = parseResponse(body)
                  /\ resp = replyResponse(body)

C6_Witness ==
    /\ pc = "done"
    /\ wrap = "json"
    /\ body = <<DocTok(AcmeDoc)>>
    /\ raw # body
    /\ parsed[1].err = "nil"
    /\ parsed[1].receipt[1].Merchant = Ptr("Acme")
    /\ Len(parsed[1].receipt[1].Items) = 1

\* no two members select the same field
NoDuplicateKeys(ms) ==
    \A i, j \in 1..Len(ms) : FoldKey(ms[i].key) = FoldKey(ms[j].key) => i = j

\* a JSON object of the expected shape: well typed, every item an object,
\* no field given twice
Conformant(v) ==
    /\ v.k = "obj"
    /\ WellTyped(v)
    /\ NoDuplicateKeys(v.m)
    /\ \A i \in 1..Len(v.m) :
           (FoldKey(v.m[i].key) = "items" /\ v.m[i].val.k = "arr") =>
               \A j \in 1..Len(v.m[i].val.e) :
                   /\ v.m[i].val.e[j].k = "obj"
                   /\ NoDuplicateKeys(v.m[i].val.e[j].m)

JAbsent == [k |-> "absent", s |-> "", n |-> 0, e |-> <<>>, m |-> <<>>]

\* the value given for a field, JAbsent when no member selects it
Given(ms, f) ==
    IF \E i \in 1..Len(ms) : FoldKey(ms[i].key) = f
    THEN ms[CHOOSE i \in 1..Len(ms) : FoldKey(ms[i].key) = f].val
    ELSE JAbsent

Missing(v) == v.k \in {"absent", "null"}

\* an optional string of the record against the value given for it
OptStringAgrees(got, v) ==
    /\ Missing(v) => got = Nil
    /\ (v.k = "str" /\ v.s # "") => got = Ptr(v.s)

\* an optional amount of the record against the value given for it
OptAmountAgrees(got, v) ==
    /\ Missing(v) => got = Nil
    /\ v.k = "num" => got = Ptr(v.n)

ItemAgrees(got, v) ==
    /\ got.Raw = (IF Missing(Given(v.m, "raw")) THEN "" ELSE Given(v.m, "raw").s)
    /\ OptStringAgrees(got.Name, Given(v.m, "name"))
    /\ got.Qty = (IF Missing(Given(v.m, "qty")) THEN QtyDefault
                  ELSE Given(v.m, "qty").n)
    /\ got.UnitPrice = (IF Missing(Given(v.m, "unit_price")) THEN 0
                        ELSE Given(v.m, "unit_price").n)

\* C9: for a JSON object of the expected shape parseResponse returns a
\* record with one item per given item, in order, each with its raw as
\* given, qty 1.0 when absent or null, unit_price 0.0 when absent or null;
\* every absent or null optional field is not present; a given amount,
\* zero included, is present with its value.
C9_DecodeDefaults ==
    (pc = "done" /\ SyntaxValid(Candidate) /\ Conformant(SyntaxTree(Candidate))) =>
        LET doc == SyntaxTree(Candidate)
            items == Given(doc.m, "items")
        IN  /\ parsed[1].err = "nil"
            /\ Len(parsed[1].receipt) = 1
            /\ LET r == parsed[1].receipt[1]
               IN  /\ OptStringAgrees(r.Merchant, Given(doc.m, "merchant"))
                   /\ OptStringAgrees(r.Date, Given(doc.m, "date"))
                   /\ OptStringAgrees(r.Currency, Given(doc.m, "currency"))
                   /\ OptAmountAgrees(r.Subtotal, Given(doc.m, "subtotal"))
                   /\ OptAmountAgrees(r.Tax, Given(doc.m, "tax"))
                   /\ OptAmountAgrees(r.Total, Given(doc.m, "total"))
                   /\ Len(r.Items) = (IF Missing(items) THEN 0 ELSE Len(items.e))
                   /\ \A i \in 1..Len(r.Items) : ItemAgrees(r.Items[i], items.e[i])

C9_Witness ==
    /\ pc = "done"
    /\ SyntaxValid(Candidate)
    /\ Conformant(SyntaxTree(Candidate))
    /\ Given(SyntaxTree(Candidate).m, "subtotal") = JNum(0)
    /\ Given(SyntaxTree(Candidate).m, "total") = JNull
    /\ Len(parsed[1].receipt[1].Items) = 2
    /\ parsed[1].receipt[1].Items[1].Raw = ""
    /\ parsed[1].receipt[1].Items[1].Qty = QtyDefault
    /\ parsed[1].receipt[1].Items[2].Raw = "EGGS"
    /\ parsed[1].receipt[1].Subtotal = Ptr(0)
    /\ parsed[1].receipt[1].Total = Nil

-----------------------------------------------------------------------------
(* Properties of calcConfidence, checked under SpecScore *)

\* C7: the score lies in [0.5, 1.0], and making an absent qualifying field
\* present (merchant, date, total, subtotal, or items from none to some)
\* never lowers it.
C7_ConfidenceBoundedMonotonic ==
    /\ pc \in {"scored", "added"} => Base <= conf /\ conf <= Cap
    /\ pc = "added" => prevConf <= conf

C7_Witness ==
    /\ pc = "added"
    /\ receipt[1].Subtotal # Nil
    /\ receipt[1].Items # <<>>
    /\ prevConf = Cap - Step
    /\ conf = Cap

\* the number of the four presence terms that apply
PresenceTerms(r) ==
    (IF r.Merchant # Nil THEN 1 ELSE 0) + (IF r.Date # Nil THEN 1 ELSE 0)
    + (IF r.Total # Nil THEN 1 ELSE 0) + (IF r.Items # <<>> THEN 1 ELSE 0)

\* |sum - subtotal| <= 0.05 * subtotal, sum in hundredths, subtotal in
\* tenths, both sides multiplied by 2000
Within5Percent(sum, subtotal) ==
    20 * Abs(sum - 10 * subtotal) <= 10 * subtotal

\* C8: the score exceeds base plus presence terms by 0.1 exactly when the
\* subtotal is present, there is an item, and the sum of qty * unit_price is
\* within 5% of the subtotal, boundary included, and by nothing otherwise;
\* with subtotal 100.0 a sum of 104.9 earns the bonus and 106.0 does not.
C8_ReconciliationBonus ==
    pc \in {"scored", "added"} =>
        LET r == receipt[1]
            bonus == conf - (Base + Step * PresenceTerms(r))
            due == /\ r.Subtotal # Nil
                   /\ r.Items # <<>>
                   /\ Within5Percent(SumItems(r.Items), r.Subtotal[1])
        IN  /\ bonus = (IF due THEN Step ELSE 0)
            /\ (r.Subtotal = Ptr(1000) /\ r.Items = <<ScoreItem(10, 1049)>>) =>
                   bonus = Step
            /\ (r.Subtotal = Ptr(1000) /\ r.Items = <<ScoreItem(10, 1060)>>) =>
                   bonus = 0

C8_Witness ==
    /\ pc = "scored"
    /\ receipt[1].Subtotal = Ptr(1000)
    /\ receipt[1].Items = <<ScoreItem(10, 1049)>>
    /\ conf = Base + Step * PresenceTerms(receipt[1]) + Step

=============================================================================
